---- MODULE Spec2Model ----
(***************************************************************************)
(* The reference-set synchroniser of wfrank/qtools: group extraction from  *)
(* the CSV inventory, the pre-flight checks of main, the per-group sync    *)
(* and orphan-delete goroutines, and the qradar client operations they     *)
(* call.  Go strings are TLA+ strings; Go's 0-based line[k] is line[k+1].  *)
(***************************************************************************)
EXTENDS Integers, Sequences, FiniteSets, Bags, TLC

(***************************************************************************)
(* Bounds of the model.                                                    *)
(***************************************************************************)
\* data rows (after the header) of the inventory in the full-program runs
MaxRows == 1
\* columns of an inventory row: column 0, the identifier, grouping columns
MaxCols == 4
\* data rows of the inventory in the extraction-only runs
MaxExtractRows == 2

(***************************************************************************)
(* Program constants.                                                      *)
(***************************************************************************)
unixRefSetPrefix == "Managed UNIX Devices - "
JoinSeparator == " - "
RetryBudget == 5
CreateExpected == 201
BulkLoadExpected == 200
DeleteExpected == 202
TaskStatusExpected == 200
ExitConfig == 1
ExitAfterFatalf == 1
ExitPanic == 2
ExitNormal == 0

(***************************************************************************)
(* Strings.                                                                *)
(***************************************************************************)
\* strings.HasPrefix(s, prefix)
HasPrefix(s, prefix) ==
    Len(s) >= Len(prefix) /\ SubSeq(s, 1, Len(prefix)) = prefix

\* strings.Join(elems, sep)
RECURSIVE Join(_, _)
Join(elems, sep) ==
    IF Len(elems) = 0 THEN ""
    ELSE IF Len(elems) = 1 THEN elems[1]
    ELSE elems[1] \o sep \o Join(Tail(elems), sep)

\* the elements of a sequence
Range(s) == {s[k] : k \in DOMAIN s}

\* the number of positions of sequence s holding x
Occurrences(s, x) == Cardinality({k \in DOMAIN s : s[k] = x})

(***************************************************************************)
(* The inventory file and group extraction.                                *)
(***************************************************************************)
EmptyMap == [k \in {} |-> <<>>]

\* groups[g] = append(groups[g], v): a missing key reads as the nil slice
AppendTo(groups, g, v) ==
    IF g \in DOMAIN groups
    THEN [groups EXCEPT ![g] = Append(@, v)]
    ELSE groups @@ (g :> <<v>>)

\* csv.Reader.ReadAll with FieldsPerRecord = 0: every record must have the
\* field count of the first one
ReadAll(file) ==
    IF \E k \in DOMAIN file.rows : Len(file.rows[k]) # Len(file.rows[1])
    THEN [err |-> TRUE, lines |-> <<>>]
    ELSE [err |-> FALSE, lines |-> file.rows]

\* the coarse group name of a row: prefix + line[2]
CoarseName(line) == unixRefSetPrefix \o line[3]

\* the fine group name of a row: prefix + join(line[2:], " - ")
FineName(line) ==
    unixRefSetPrefix \o Join(SubSeq(line, 3, Len(line)), JoinSeparator)

\* ExtractLine without lines 42-43: the fine group is never filled
ExtractLineCoarseOnly(groups, line) ==
    AppendTo(groups, CoarseName(line), line[2])

\* the body of the loop over lines for one non-header line
ExtractLine(groups, line) ==
    AppendTo(AppendTo(groups, CoarseName(line), line[2]),
             FineName(line), line[2])

\* ExtractLoop without the skip of lines 36-38: the header is a data row
RECURSIVE ExtractLoopHeaderKept(_, _, _)
ExtractLoopHeaderKept(lines, i, groups) ==
    IF i > Len(lines) THEN [kind |-> "ok", groups |-> groups]
    ELSE IF Len(lines[i]) < 3 THEN [kind |-> "panic", groups |-> EmptyMap]
    ELSE ExtractLoopHeaderKept(lines, i + 1, ExtractLine(groups, lines[i]))

\* the loop over lines, from line i on; line[2] of a line with fewer than
\* three fields is an index out of range, a run-time panic
RECURSIVE ExtractLoop(_, _, _)
ExtractLoop(lines, i, groups) ==
    IF i > Len(lines) THEN [kind |-> "ok", groups |-> groups]
    ELSE IF i = 1 THEN ExtractLoop(lines, i + 1, groups)
    ELSE IF Len(lines[i]) < 3 THEN [kind |-> "panic", groups |-> EmptyMap]
    ELSE ExtractLoop(lines, i + 1, ExtractLine(groups, lines[i]))

extractServerGroups(file) ==
    IF file.unreadable THEN [kind |-> "err", groups |-> EmptyMap]
    ELSE LET read == ReadAll(file) IN
         IF read.err THEN [kind |-> "err", groups |-> EmptyMap]
         ELSE ExtractLoop(read.lines, 1, EmptyMap)

(***************************************************************************)
(* Inputs: inventories of bounded size over small alphabets.               *)
(***************************************************************************)
\* all sequences over S of length lo..hi
SeqsOf(S, lo, hi) == UNION {[1..n -> S] : n \in lo..hi}

\* a row: column 0, then an identifier, then 0..MaxCols-2 grouping columns
RowsOver(ids, vals) ==
    {<<"c0", id>> \o gs : id \in ids, gs \in SeqsOf(vals, 0, MaxCols - 2)}

HeaderRows == {[k \in 1..n |-> "hdr"] : n \in 2..MaxCols}

FilesOver(ids, vals, maxRows) ==
    {[unreadable |-> TRUE, rows |-> <<>>]} \cup
    {[unreadable |-> FALSE, rows |-> <<>>]} \cup
    {[unreadable |-> FALSE, rows |-> <<h>> \o rs] :
        h \in HeaderRows, rs \in SeqsOf(RowsOver(ids, vals), 0, maxRows)}

(***************************************************************************)
(* The remote store (the REST API consumed by the client) and its replies. *)
(***************************************************************************)
Codes == {200, 201, 202, 500}

\* what an HTTP round trip gives the client: httpClient.Do failed, or a
\* response with a status code and a body that decodes as the expected
\* schema or does not
Replies == [sendErr : BOOLEAN, code : Codes, decodes : BOOLEAN]

\* the remote performed the operation exactly when it answers with the
\* endpoint's success code
Served(reply, expected) == ~reply.sendErr /\ reply.code = expected

TaskStatuses == {"PROCESSING", "COMPLETED"}

NoTask == [ID |-> 0, Status |-> ""]

\* the listings of the store: one ReferenceSet record per set, in any order
Listings(sets) ==
    {[k \in 1..Cardinality(DOMAIN sets) |->
         [Name |-> order[k], NumberOfElements |-> Cardinality(sets[order[k]])]] :
       order \in {o \in [1..Cardinality(DOMAIN sets) -> DOMAIN sets] :
                    \A j, k \in DOMAIN o : j # k => o[j] # o[k]}}

\* the effect of a deletion task that completes
ApplyTask(sets, task) ==
    IF task.name \notin DOMAIN sets THEN sets
    ELSE IF task.purgeOnly THEN [sets EXCEPT ![task.name] = {}]
    ELSE [n \in DOMAIN sets \ {task.name} |-> sets[n]]

(***************************************************************************)
(* The client operations: the error value each returns for a reply.        *)
(***************************************************************************)
\* Client.ReferenceSets: no status code is checked
ReferenceSetsErr(reply) ==
    IF reply.sendErr THEN TRUE
    ELSE ~reply.decodes

\* Client.CreateReferenceSet with the test of line 95 widened to any code
\* below 300
CreateReferenceSetErrAny2xx(reply) ==
    IF reply.sendErr THEN TRUE
    ELSE IF reply.code >= 300 THEN TRUE
    ELSE ~reply.decodes

\* Client.CreateReferenceSet
CreateReferenceSetErr(reply) ==
    IF reply.sendErr THEN TRUE
    ELSE IF reply.code # CreateExpected THEN TRUE
    ELSE ~reply.decodes

\* Client.BulkLoadReferenceSet
BulkLoadReferenceSetErr(reply) ==
    IF reply.sendErr THEN TRUE
    ELSE IF reply.code # BulkLoadExpected THEN TRUE
    ELSE ~reply.decodes

\* Client.DeleteReferenceSet
DeleteReferenceSetErr(reply) ==
    IF reply.sendErr THEN TRUE
    ELSE IF reply.code # DeleteExpected THEN TRUE
    ELSE ~reply.decodes

\* Client.DeleteReferenceSetTaskStatus
DeleteReferenceSetTaskStatusErr(reply) ==
    IF reply.sendErr THEN TRUE
    ELSE IF reply.code # TaskStatusExpected THEN TRUE
    ELSE ~reply.decodes

(***************************************************************************)
(* State.                                                                  *)
(***************************************************************************)
VARIABLES
    url,          \* -url / QRADAR_BASE_URL: "" missing, MalformedURL, or good
    token,        \* -token / QRADAR_SEC_TOKEN
    file,         \* the inventory named by -file
    pcMain,       \* where main is
    exitCode,     \* the process exit code, NoExit while running
    exitCause,    \* which statement ended the process
    serverGroups, \* main's serverGroups
    unixRefSets,  \* main's unixRefSets
    units,        \* the goroutines launched so far, by set name
    wg,           \* the WaitGroup counter
    remoteSets,   \* the remote store: set name -> members
    tasks,        \* the remote store's deletion tasks, by ID
    issued,       \* history: the bag of mutating and polling requests sent
    replies       \* history: the outcomes the client operations returned

vars == <<url, token, file, pcMain, exitCode, exitCause, serverGroups,
          unixRefSets, units, wg, remoteSets, tasks, issued, replies>>

NoExit == 0 - 1
MalformedURL == "://console"
GoodURL == "https://console"

\* a request as recorded in the history
Request(op, name, purgeOnly, taskID, servers) ==
    [op |-> op, name |-> name, purgeOnly |-> purgeOnly, taskID |-> taskID,
     servers |-> servers]

\* an outcome as recorded in the history
Outcome(op, name, err, status) ==
    [op |-> op, name |-> name, err |-> err, status |-> status]

Running == exitCode = NoExit

(***************************************************************************)
(* main before the fan-out: lines 51-80.                                   *)
(***************************************************************************)
\* lines 56-59 with && for ||: only a run missing both is refused
CheckConfigBothMissing ==
    /\ Running /\ pcMain = "config"
    /\ IF url = "" /\ token = ""
       THEN /\ pcMain' = "exited"
            /\ exitCode' = ExitConfig
            /\ exitCause' = "config"
       ELSE /\ pcMain' = "extract"
            /\ UNCHANGED <<exitCode, exitCause>>
    /\ UNCHANGED <<url, token, file, serverGroups, unixRefSets, units, wg,
                   remoteSets, tasks, issued, replies>>

\* lines 56-59
CheckConfig ==
    /\ Running /\ pcMain = "config"
    /\ IF url = "" \/ token = ""
       THEN /\ pcMain' = "exited"
            /\ exitCode' = ExitConfig
            /\ exitCause' = "config"
       ELSE /\ pcMain' = "extract"
            /\ UNCHANGED <<exitCode, exitCause>>
    /\ UNCHANGED <<url, token, file, serverGroups, unixRefSets, units, wg,
                   remoteSets, tasks, issued, replies>>

\* lines 61-65: log.Fatalf exits the process itself, so the os.Exit(2)
\* after it is never reached
Extract ==
    /\ Running /\ pcMain = "extract"
    /\ LET r == extractServerGroups(file) IN
       CASE r.kind = "panic" ->
              /\ pcMain' = "exited"
              /\ exitCode' = ExitPanic
              /\ exitCause' = "panic"
              /\ UNCHANGED serverGroups
         [] r.kind = "err" ->
              /\ pcMain' = "exited"
              /\ exitCode' = ExitAfterFatalf
              /\ exitCause' = "extract"
              /\ UNCHANGED serverGroups
         [] OTHER ->
              /\ pcMain' = "list"
              /\ serverGroups' = r.groups
              /\ UNCHANGED <<exitCode, exitCause>>
    /\ UNCHANGED <<url, token, file, unixRefSets, units, wg, remoteSets,
                   tasks, issued, replies>>

\* BuildUnixRefSets without the strings.HasPrefix test of line 77: every
\* listed set is taken as managed
RECURSIVE BuildUnixRefSetsUnfiltered(_, _, _, _)
BuildUnixRefSetsUnfiltered(allRefSets, i, perIteration, acc) ==
    IF i > Len(allRefSets) THEN acc
    ELSE LET set == allRefSets[i]
             target == IF perIteration THEN set
                       ELSE allRefSets[Len(allRefSets)]
         IN BuildUnixRefSetsUnfiltered(allRefSets, i + 1, perIteration,
               [n \in DOMAIN acc \cup {set.Name} |->
                   IF n = set.Name THEN target ELSE acc[n]])

\* lines 75-80, from element i of the listing on: unixRefSets[name] = &set
\* for the names with the managed prefix.  `set` is the loop variable: where
\* the build gives each iteration its own variable (perIteration), the
\* pointer stays on that element; where one variable serves the whole loop,
\* every stored pointer reads the element assigned last
RECURSIVE BuildUnixRefSets(_, _, _, _)
BuildUnixRefSets(allRefSets, i, perIteration, acc) ==
    IF i > Len(allRefSets) THEN acc
    ELSE LET set == allRefSets[i]
             target == IF perIteration THEN set
                       ELSE allRefSets[Len(allRefSets)]
         IN BuildUnixRefSets(allRefSets, i + 1, perIteration,
               IF HasPrefix(set.Name, unixRefSetPrefix)
               THEN [n \in DOMAIN acc \cup {set.Name} |->
                        IF n = set.Name THEN target ELSE acc[n]]
               ELSE acc)

\* lines 67-80: http.NewRequest fails on a malformed URL and the nil request
\* is then dereferenced, a run-time panic; log.Fatalf exits the process
\* itself, so the os.Exit(3) after it is never reached
List ==
    /\ Running /\ pcMain = "list"
    /\ IF url = MalformedURL
       THEN /\ pcMain' = "exited"
            /\ exitCode' = ExitPanic
            /\ exitCause' = "panic"
            /\ UNCHANGED unixRefSets
       ELSE \E reply \in Replies, allRefSets \in Listings(remoteSets),
               perIteration \in BOOLEAN :
            \* an error response never carries a list of sets
            /\ reply.decodes => reply.code = 200
            /\ IF ReferenceSetsErr(reply)
               THEN /\ pcMain' = "exited"
                    /\ exitCode' = ExitAfterFatalf
                    /\ exitCause' = "list"
                    /\ UNCHANGED unixRefSets
               ELSE /\ pcMain' = "launch"
                    /\ unixRefSets' =
                         BuildUnixRefSets(allRefSets, 1, perIteration, EmptyMap)
                    /\ UNCHANGED <<exitCode, exitCause>>
    /\ UNCHANGED <<url, token, file, serverGroups, units, wg, remoteSets,
                   tasks, issued, replies>>

(***************************************************************************)
(* The fan-out and the join: lines 82-86, 130-136, 161.                    *)
(***************************************************************************)
NewUnit(kind) ==
    [kind |-> kind, pc |-> "start", task |-> NoTask, retry |-> 0,
     failure |-> ""]

Launched == DOMAIN units

\* the managed remote sets that are not desired: lines 130-133
Orphans == DOMAIN unixRefSets \ DOMAIN serverGroups

\* lines 83-85: wg.Add(1) and go func(group, servers), in map order
LaunchSync ==
    /\ Running /\ pcMain = "launch"
    /\ \E name \in DOMAIN serverGroups \ Launched :
         /\ units' = units @@ (name :> NewUnit("sync"))
         /\ wg' = wg + 1
    /\ UNCHANGED <<url, token, file, pcMain, exitCode, exitCause,
                   serverGroups, unixRefSets, remoteSets, tasks, issued,
                   replies>>

\* lines 130-135: after the first loop, wg.Add(1) and go func(name)
LaunchDelete ==
    /\ Running /\ pcMain = "launch"
    /\ DOMAIN serverGroups \subseteq Launched
    /\ \E name \in Orphans \ Launched :
         /\ units' = units @@ (name :> NewUnit("delete"))
         /\ wg' = wg + 1
    /\ UNCHANGED <<url, token, file, pcMain, exitCode, exitCause,
                   serverGroups, unixRefSets, remoteSets, tasks, issued,
                   replies>>

\* line 161 without the wait: main returns once the goroutines are launched
WaitNotBlocking ==
    /\ Running /\ pcMain = "launch"
    /\ DOMAIN serverGroups \subseteq Launched
    /\ Orphans \subseteq Launched
    /\ pcMain' = "done"
    /\ exitCode' = ExitNormal
    /\ exitCause' = "normal"
    /\ UNCHANGED <<url, token, file, serverGroups, unixRefSets, units, wg,
                   remoteSets, tasks, issued, replies>>

\* line 161: wg.Wait() returns when the counter is zero, main returns
Wait ==
    /\ Running /\ pcMain = "launch"
    /\ DOMAIN serverGroups \subseteq Launched
    /\ Orphans \subseteq Launched
    /\ wg = 0
    /\ pcMain' = "done"
    /\ exitCode' = ExitNormal
    /\ exitCause' = "normal"
    /\ UNCHANGED <<url, token, file, serverGroups, unixRefSets, units, wg,
                   remoteSets, tasks, issued, replies>>

(***************************************************************************)
(* The goroutines: lines 85-127 (sync) and 135-159 (delete).               *)
(***************************************************************************)
\* AfterTask without the check of line 106 / 154: the unit goes on when the
\* retries run out
AfterTaskNoTimeout(u, task, retry) ==
    IF task.Status # "COMPLETED" /\ retry > 0
    THEN [u EXCEPT !.pc = "poll", !.task = task, !.retry = retry]
    ELSE [u EXCEPT !.pc = IF u.kind = "sync" THEN "load" ELSE "done",
                   !.task = task, !.retry = retry]

\* AfterTask with retry >= 0 for retry > 0 in the loop condition
AfterTaskOneMore(u, task, retry) ==
    IF task.Status # "COMPLETED" /\ retry >= 0
    THEN [u EXCEPT !.pc = "poll", !.task = task, !.retry = retry]
    ELSE IF task.Status # "COMPLETED"
    THEN [u EXCEPT !.pc = "fatal", !.task = task, !.retry = retry,
                   !.failure = "timeout"]
    ELSE [u EXCEPT !.pc = IF u.kind = "sync" THEN "load" ELSE "done",
                   !.task = task, !.retry = retry]

\* AfterTask with the loop condition of line 95 / 143 reduced to retry > 0:
\* the status just received does not end the polling
AfterTaskIgnoringStatus(u, task, retry) ==
    IF retry > 0
    THEN [u EXCEPT !.pc = "poll", !.task = task, !.retry = retry]
    ELSE IF task.Status # "COMPLETED"
    THEN [u EXCEPT !.pc = "fatal", !.task = task, !.retry = retry,
                   !.failure = "timeout"]
    ELSE [u EXCEPT !.pc = IF u.kind = "sync" THEN "load" ELSE "done",
                   !.task = task, !.retry = retry]

\* the loop condition of line 95 / 143 and the check of line 106 / 154 on
\* the task just received: poll again, go on, or time out
AfterTask(u, task, retry) ==
    IF task.Status # "COMPLETED" /\ retry > 0
    THEN [u EXCEPT !.pc = "poll", !.task = task, !.retry = retry]
    ELSE IF task.Status # "COMPLETED"
    THEN [u EXCEPT !.pc = "fatal", !.task = task, !.retry = retry,
                   !.failure = "timeout"]
    ELSE [u EXCEPT !.pc = IF u.kind = "sync" THEN "load" ELSE "done",
                   !.task = task, !.retry = retry]

Failed(u, why) == [u EXCEPT !.pc = "fatal", !.failure = why]

\* defer wg.Done(): the counter drops when the goroutine returns
DoneDelta(u) == IF u.pc = "done" THEN 1 ELSE 0

\* the remote's handling of DELETE .../sets/<name>?purge_only=<b>: a served
\* request starts a task, which may already be complete in the answer
DeleteRequest(name, purgeOnly) ==
    \E reply \in Replies, status \in TaskStatuses :
      LET served == Served(reply, DeleteExpected)
          id == Len(tasks) + 1
          t == [name |-> name, purgeOnly |-> purgeOnly, status |-> status]
          err == DeleteReferenceSetErr(reply)
          task == [ID |-> id, Status |-> status]
          u == units[name]
          u2 == IF err THEN Failed(u, "delete")
                ELSE AfterTask(u, task, RetryBudget)
      IN
      /\ served => name \in DOMAIN remoteSets
      /\ ~served => status = "PROCESSING"
      /\ tasks' = IF served THEN Append(tasks, t) ELSE tasks
      /\ remoteSets' = IF served /\ status = "COMPLETED"
                       THEN ApplyTask(remoteSets, t) ELSE remoteSets
      /\ issued' = issued (+)
             SetToBag({Request("delete", name, purgeOnly, 0, <<>>)})
      /\ replies' = replies \cup
             {Outcome("delete", name, err, IF err THEN "" ELSE status)}
      /\ units' = [units EXCEPT ![name] = u2]
      /\ wg' = wg - DoneDelta(u2)

\* Purge with purgeOnly false: the existing set is deleted outright
PurgeOutright(name) ==
    /\ Running /\ name \in Launched
    /\ units[name].kind = "sync" /\ units[name].pc = "start"
    /\ name \in DOMAIN unixRefSets
    /\ DeleteRequest(name, FALSE)
    /\ UNCHANGED <<url, token, file, pcMain, exitCode, exitCause,
                   serverGroups, unixRefSets>>

\* Delete with purgeOnly true: the orphan is only emptied
DeletePurgeOnly(name) ==
    /\ Running /\ name \in Launched
    /\ units[name].kind = "delete" /\ units[name].pc = "start"
    /\ DeleteRequest(name, TRUE)
    /\ UNCHANGED <<url, token, file, pcMain, exitCode, exitCause,
                   serverGroups, unixRefSets>>

\* lines 87-94: the set exists remotely, purge it
Purge(name) ==
    /\ Running /\ name \in Launched
    /\ units[name].kind = "sync" /\ units[name].pc = "start"
    /\ name \in DOMAIN unixRefSets
    /\ DeleteRequest(name, TRUE)
    /\ UNCHANGED <<url, token, file, pcMain, exitCode, exitCause,
                   serverGroups, unixRefSets>>

\* lines 137-142: the orphan is deleted outright
Delete(name) ==
    /\ Running /\ name \in Launched
    /\ units[name].kind = "delete" /\ units[name].pc = "start"
    /\ DeleteRequest(name, FALSE)
    /\ UNCHANGED <<url, token, file, pcMain, exitCode, exitCause,
                   serverGroups, unixRefSets>>

\* lines 95-109 / 143-157: one turn of the polling loop
Poll(name) ==
    /\ Running /\ name \in Launched
    /\ units[name].pc = "poll"
    /\ \E reply \in Replies :
         LET u == units[name]
             id == u.task.ID
             served == Served(reply, TaskStatusExpected)
             err == DeleteReferenceSetTaskStatusErr(reply)
             status == IF id \in DOMAIN tasks THEN tasks[id].status ELSE ""
             task == [ID |-> id, Status |-> status]
             u2 == IF err THEN Failed(u, "poll")
                   ELSE AfterTask(u, task, u.retry - 1)
         IN
         /\ served => id \in DOMAIN tasks
         /\ issued' = issued (+)
                SetToBag({Request("status", name, FALSE, id, <<>>)})
         /\ replies' = replies \cup
                {Outcome("status", name, err, IF err THEN "" ELSE status)}
         /\ units' = [units EXCEPT ![name] = u2]
         /\ wg' = wg - DoneDelta(u2)
    /\ UNCHANGED <<url, token, file, pcMain, exitCode, exitCause,
                   serverGroups, unixRefSets, remoteSets, tasks>>

\* Create with the error of CreateReferenceSet dropped: the unit goes on
CreateErrorIgnored(name) ==
    /\ Running /\ name \in Launched
    /\ units[name].kind = "sync" /\ units[name].pc = "start"
    /\ name \notin DOMAIN unixRefSets
    /\ \E reply \in Replies :
         LET served == Served(reply, CreateExpected)
             err == CreateReferenceSetErr(reply)
             u == units[name]
         IN
         /\ served => name \notin DOMAIN remoteSets
         /\ remoteSets' = IF served THEN remoteSets @@ (name :> {})
                          ELSE remoteSets
         /\ issued' = issued (+)
                SetToBag({Request("create", name, FALSE, 0, <<>>)})
         /\ replies' = replies \cup {Outcome("create", name, err, "")}
         /\ units' = [units EXCEPT ![name] = [u EXCEPT !.pc = "load"]]
    /\ UNCHANGED <<url, token, file, pcMain, exitCode, exitCause,
                   serverGroups, unixRefSets, wg, tasks>>

\* Create without the test of line 87: a create is sent whether or not the
\* listing held the name
CreateAlways(name) ==
    /\ Running /\ name \in Launched
    /\ units[name].kind = "sync" /\ units[name].pc = "start"
    /\ \E reply \in Replies :
         LET served == Served(reply, CreateExpected)
             err == CreateReferenceSetErr(reply)
             u == units[name]
         IN
         /\ served => name \notin DOMAIN remoteSets
         /\ remoteSets' = IF served THEN remoteSets @@ (name :> {})
                          ELSE remoteSets
         /\ issued' = issued (+)
                SetToBag({Request("create", name, FALSE, 0, <<>>)})
         /\ replies' = replies \cup {Outcome("create", name, err, "")}
         /\ units' = [units EXCEPT ![name] =
                IF err THEN Failed(u, "create") ELSE [u EXCEPT !.pc = "load"]]
    /\ UNCHANGED <<url, token, file, pcMain, exitCode, exitCause,
                   serverGroups, unixRefSets, wg, tasks>>

\* lines 111-119: the set does not exist remotely, create it
Create(name) ==
    /\ Running /\ name \in Launched
    /\ units[name].kind = "sync" /\ units[name].pc = "start"
    /\ name \notin DOMAIN unixRefSets
    /\ \E reply \in Replies :
         LET served == Served(reply, CreateExpected)
             err == CreateReferenceSetErr(reply)
             u == units[name]
         IN
         /\ served => name \notin DOMAIN remoteSets
         /\ remoteSets' = IF served THEN remoteSets @@ (name :> {})
                          ELSE remoteSets
         /\ issued' = issued (+)
                SetToBag({Request("create", name, FALSE, 0, <<>>)})
         /\ replies' = replies \cup {Outcome("create", name, err, "")}
         /\ units' = [units EXCEPT ![name] =
                IF err THEN Failed(u, "create") ELSE [u EXCEPT !.pc = "load"]]
    /\ UNCHANGED <<url, token, file, pcMain, exitCode, exitCause,
                   serverGroups, unixRefSets, wg, tasks>>

\* lines 120-127: bulk-load the members, then return
BulkLoad(name) ==
    /\ Running /\ name \in Launched
    /\ units[name].pc = "load"
    /\ \E reply \in Replies :
         LET served == Served(reply, BulkLoadExpected)
             err == BulkLoadReferenceSetErr(reply)
             servers == serverGroups[name]
             u == units[name]
             u2 == IF err THEN Failed(u, "load") ELSE [u EXCEPT !.pc = "done"]
         IN
         /\ served => name \in DOMAIN remoteSets
         /\ remoteSets' = IF served
                          THEN [remoteSets EXCEPT ![name] = Range(servers)]
                          ELSE remoteSets
         /\ issued' = issued (+)
                SetToBag({Request("load", name, FALSE, 0, servers)})
         /\ replies' = replies \cup {Outcome("load", name, err, "")}
         /\ units' = [units EXCEPT ![name] = u2]
         /\ wg' = wg - DoneDelta(u2)
    /\ UNCHANGED <<url, token, file, pcMain, exitCode, exitCause,
                   serverGroups, unixRefSets, tasks>>

\* Fatal with log.Printf for log.Fatalf: the goroutine returns through its
\* deferred wg.Done and the process goes on
FatalOnlyReturns(name) ==
    /\ Running /\ name \in Launched
    /\ units[name].pc = "fatal"
    /\ units' = [units EXCEPT ![name].pc = "done"]
    /\ wg' = wg - 1
    /\ UNCHANGED <<url, token, file, pcMain, exitCode, exitCause,
                   serverGroups, unixRefSets, remoteSets, tasks, issued,
                   replies>>

\* log.Fatalf in a goroutine: the message is written and the whole process
\* exits with status 1
Fatal(name) ==
    /\ Running /\ name \in Launched
    /\ units[name].pc = "fatal"
    /\ pcMain' = "exited"
    /\ exitCode' = ExitAfterFatalf
    /\ exitCause' = "unit"
    /\ UNCHANGED <<url, token, file, serverGroups, unixRefSets, units, wg,
                   remoteSets, tasks, issued, replies>>

\* the remote store finishes a deletion task
TaskCompletes(id) ==
    /\ Running
    /\ id \in DOMAIN tasks /\ tasks[id].status # "COMPLETED"
    /\ tasks' = [tasks EXCEPT ![id].status = "COMPLETED"]
    /\ remoteSets' = ApplyTask(remoteSets, tasks[id])
    /\ UNCHANGED <<url, token, file, pcMain, exitCode, exitCause,
                   serverGroups, unixRefSets, units, wg, issued, replies>>

(***************************************************************************)
(* The full program.                                                       *)
(***************************************************************************)
\* the names the remote store may hold before the run
RemoteNames ==
    {unixRefSetPrefix \o "east", unixRefSetPrefix \o "west", "Other Devices"}

StaleMember == "192.0.2.9"

InitState(files) ==
    /\ url \in {"", MalformedURL, GoodURL}
    /\ token \in {"", "secret"}
    /\ file \in files
    /\ pcMain = "config"
    /\ exitCode = NoExit
    /\ exitCause = ""
    /\ serverGroups = EmptyMap
    /\ unixRefSets = EmptyMap
    /\ units = EmptyMap
    /\ wg = 0
    /\ \E names \in SUBSET RemoteNames :
         remoteSets = [n \in names |-> {StaleMember}]
    /\ tasks = <<>>
    /\ issued = EmptyBag
    /\ replies = {}

Init == InitState(FilesOver({"10.0.0.1"}, {"east"}, MaxRows))

Next ==
    \/ CheckConfig
    \/ Extract
    \/ List
    \/ LaunchSync
    \/ LaunchDelete
    \/ Wait
    \/ \E name \in Launched : Purge(name)
    \/ \E name \in Launched : Delete(name)
    \/ \E name \in Launched : Poll(name)
    \/ \E name \in Launched : Create(name)
    \/ \E name \in Launched : BulkLoad(name)
    \/ \E name \in Launched : Fatal(name)
    \/ \E id \in DOMAIN tasks : TaskCompletes(id)

Spec == Init /\ [][Next]_vars

\* the full program with the scheduling the Go runtime gives: a goroutine
\* that has reached log.Fatalf gets to run it
SpecFair == Spec /\ WF_vars(\E name \in Launched : Fatal(name))

(***************************************************************************)
(* Group extraction on its own: main up to the return of                   *)
(* extractServerGroups, over a wider range of inventories.                 *)
(***************************************************************************)
InitExtract ==
    /\ url = GoodURL
    /\ token \in {"", "secret"}
    /\ file \in FilesOver({"10.0.0.1", "10.0.0.2"}, {"east", "east - db"},
                          MaxExtractRows)
    /\ pcMain = "config"
    /\ exitCode = NoExit
    /\ exitCause = ""
    /\ serverGroups = EmptyMap
    /\ unixRefSets = EmptyMap
    /\ units = EmptyMap
    /\ wg = 0
    /\ remoteSets = EmptyMap
    /\ tasks = <<>>
    /\ issued = EmptyBag
    /\ replies = {}

NextExtract ==
    \/ CheckConfig
    \/ Extract

SpecExtract == InitExtract /\ [][NextExtract]_vars

(***************************************************************************)
(* Vocabulary of the properties.                                           *)
(***************************************************************************)
RECURSIVE SumCopies(_)
SumCopies(S) ==
    IF S = {} THEN 0
    ELSE LET r == CHOOSE x \in S : TRUE
         IN CopiesIn(r, issued) + SumCopies(S \ {r})

\* the requests of kind op sent for set name, and how many were sent
Sent(op, name) == {r \in BagToSet(issued) : r.op = op /\ r.name = name}
SentCount(op, name) == SumCopies(Sent(op, name))

\* the client returned, for set name, a deletion task with status COMPLETED
SawCompleted(name) ==
    \/ Outcome("delete", name, FALSE, "COMPLETED") \in replies
    \/ Outcome("status", name, FALSE, "COMPLETED") \in replies

ManagedRemote == {n \in DOMAIN remoteSets : HasPrefix(n, unixRefSetPrefix)}

Existing == DOMAIN serverGroups \cap DOMAIN unixRefSets
New == DOMAIN serverGroups \ DOMAIN unixRefSets

\* the non-header rows the extraction loop has gone through
DataRows == {i \in DOMAIN file.rows : i > 1}
IdOf(i) == file.rows[i][2]
Extracted == pcMain = "list"

(***************************************************************************)
(* Properties of the full program.                                         *)
(***************************************************************************)
\* C1: when the run ends normally, the remote sets with the managed prefix
\* are exactly the desired groups, and each holds exactly the members
\* extracted for it, nothing of its earlier contents.
C1_RemoteAgreesAtNormalEnd ==
    pcMain = "done" =>
        /\ ManagedRemote = DOMAIN serverGroups
        /\ \A g \in DOMAIN serverGroups :
             remoteSets[g] = Range(serverGroups[g])

\* a normal end of a run that refreshed an existing set, created a new one
\* and removed an orphan
C1_Witness ==
    /\ pcMain = "done"
    /\ Existing # {} /\ New # {} /\ Orphans # {}

\* C2: no delete with purge_only=false is ever sent for a desired group
\* name; every delete sent for such a name carries purge_only=true.
C2_DesiredNeverDeletedOutright ==
    \A r \in BagToSet(issued) :
        (r.op = "delete" /\ r.name \in DOMAIN serverGroups) => r.purgeOnly

\* a delete request has been sent for a desired group
C2_Witness ==
    \E g \in DOMAIN serverGroups : Sent("delete", g) # {}

\* C3: no create or bulk-load is ever sent for an orphan (a listed managed
\* set that is not desired); and when the run ends normally every orphan has
\* had one delete with purge_only=false sent, its task has been followed
\* until the client saw COMPLETED, and the set is gone from the store.
C3_OrphansDeletedAndStayGone ==
    /\ \A n \in Orphans : Sent("create", n) = {} /\ Sent("load", n) = {}
    /\ pcMain = "done" =>
         \A n \in Orphans :
            /\ Sent("delete", n) = {Request("delete", n, FALSE, 0, <<>>)}
            /\ SentCount("delete", n) = 1
            /\ SawCompleted(n)
            /\ n \notin DOMAIN remoteSets

\* a normal end in which an orphan's task was polled at least once
C3_Witness ==
    /\ pcMain = "done"
    /\ \E n \in Orphans : SentCount("status", n) > 0

\* C4: a bulk-load has been sent for a group only if, for a new group, the
\* create returned success and, for an existing group, the purge task was
\* seen COMPLETED; a group whose create, purge or poll failed, or whose
\* purge timed out, has had no bulk-load sent.
C4_LoadOnlyAfterCreateOrPurge ==
    /\ \A g \in DOMAIN serverGroups :
         Sent("load", g) # {} =>
            IF g \in DOMAIN unixRefSets
            THEN SawCompleted(g)
            ELSE Outcome("create", g, FALSE, "") \in replies
    /\ \A g \in Launched :
         units[g].failure \in {"delete", "poll", "timeout", "create"} =>
            Sent("load", g) = {}

\* bulk-loads sent for an existing group whose purge had to be polled and
\* for a new group
C4_Witness ==
    /\ \E g \in Existing : Sent("load", g) # {} /\ SentCount("status", g) > 0
    /\ \E g \in New : Sent("load", g) # {}

\* C5: a unit sends at most RetryBudget status lookups; while it may still
\* poll it has sent fewer; after the last one it has stopped, and if that
\* one did not report COMPLETED the unit has failed, by timeout unless the
\* lookup itself failed.
C5_PollingBounded ==
    \A n \in Launched :
        LET c == SentCount("status", n) IN
        /\ c <= RetryBudget
        /\ units[n].pc = "poll" => c < RetryBudget
        /\ (c = RetryBudget /\ units[n].task.Status # "COMPLETED") =>
              /\ units[n].pc = "fatal"
              /\ units[n].failure \in {"timeout", "poll"}
        /\ units[n].failure = "timeout" =>
              c = RetryBudget /\ units[n].task.Status # "COMPLETED"

\* a unit that timed out after its last lookup
C5_Witness ==
    \E n \in Launched :
        units[n].failure = "timeout" /\ SentCount("status", n) = RetryBudget

\* C6: a run with a missing URL or token, a failing extraction or a failing
\* listing launches no unit and sends no create, bulk-load or delete; nor
\* does any run before its listing has returned.
C6_PreflightAbortsBeforeMutation ==
    (\/ url = "" \/ token = ""
     \/ extractServerGroups(file).kind = "err"
     \/ exitCause \in {"config", "extract", "list"}
     \/ pcMain \in {"config", "extract", "list"})
    => /\ issued = EmptyBag
       /\ Launched = {}
       /\ wg = 0

\* a run ended by a failing listing of a store that holds managed sets
C6_Witness ==
    /\ exitCause = "list" /\ pcMain = "exited"
    /\ ManagedRemote # {}

\* C7: the exit code is 1 for missing configuration, 2 for a failing
\* extraction and 3 for a failing listing.
C7_ExitCodePerCause ==
    /\ exitCause = "config" => exitCode = 1
    /\ exitCause = "extract" => exitCode = 2
    /\ exitCause = "list" => exitCode = 3

\* C10: main returns normally only when every desired group and every
\* orphan has a unit that ran to its end: the counter is zero, every sync
\* unit's bulk-load returned success and every delete unit saw COMPLETED.
C10_NormalExitAfterAllUnits ==
    pcMain = "done" =>
        /\ Launched = DOMAIN serverGroups \cup Orphans
        /\ wg = 0
        /\ \A n \in Launched :
             /\ units[n].pc = "done"
             /\ units[n].kind = "sync" =>
                   Outcome("load", n, FALSE, "") \in replies
             /\ units[n].kind = "delete" => SawCompleted(n)

\* a normal end of a run with three units
C10_Witness ==
    /\ pcMain = "done"
    /\ Cardinality(Launched) >= 3

(***************************************************************************)
(* Properties of group extraction.                                         *)
(***************************************************************************)
\* the groups whose member list holds id
GroupsHolding(id) ==
    {g \in DOMAIN serverGroups : id \in Range(serverGroups[g])}

\* the entries for id in the member lists of the groups in names
RECURSIVE Entries(_, _)
Entries(names, id) ==
    IF names = {} THEN 0
    ELSE LET g == CHOOSE x \in names : TRUE
         IN Occurrences(serverGroups[g], id) + Entries(names \ {g}, id)

\* C8 as stated: the identifier of every data row is in exactly two groups,
\* the row's coarse and fine group, once in each.
C8_TwoGroupsForEveryRow ==
    Extracted =>
        \A i \in DataRows :
            LET row == file.rows[i] IN
            /\ GroupsHolding(IdOf(i)) = {CoarseName(row), FineName(row)}
            /\ Cardinality(GroupsHolding(IdOf(i))) = 2
            /\ \A g \in GroupsHolding(IdOf(i)) :
                 Occurrences(serverGroups[g], IdOf(i)) = 1

\* C8, amended: every data row's identifier is in the row's coarse and fine
\* group, which are two groups exactly when the row has two or more
\* grouping columns; an identifier has two entries per row it stands on;
\* and an identifier that stands on one row only, with two or more grouping
\* columns, is in exactly those two groups, once in each.
C8_TwoEntriesPerRow ==
    Extracted =>
        \A i \in DataRows :
            LET row == file.rows[i]
                id == IdOf(i)
                rowsOfId == {j \in DataRows : IdOf(j) = id}
            IN
            /\ {CoarseName(row), FineName(row)} \subseteq GroupsHolding(id)
            /\ (CoarseName(row) # FineName(row)) <=> (Len(row) >= 4)
            /\ Entries(DOMAIN serverGroups, id) = 2 * Cardinality(rowsOfId)
            /\ (Len(row) >= 4 /\ rowsOfId = {i}) =>
                  /\ GroupsHolding(id) = {CoarseName(row), FineName(row)}
                  /\ Cardinality(GroupsHolding(id)) = 2
                  /\ \A g \in GroupsHolding(id) :
                       Occurrences(serverGroups[g], id) = 1

\* an extraction of two rows with different identifiers, one of them with
\* two grouping columns
C8_Witness ==
    /\ Extracted
    /\ \E i, j \in DataRows : IdOf(i) # IdOf(j) /\ Len(file.rows[i]) >= 4

\* the data rows, by index, whose coarse or fine name is g
RowsDeriving(g) ==
    SelectSeq([k \in 1..(Len(file.rows) - 1) |-> k + 1],
              LAMBDA i : g \in {CoarseName(file.rows[i]), FineName(file.rows[i])})

\* C9 as stated: a group's member list is the identifiers of the data rows
\* that derive its name, one per row, in row order; the groups are exactly
\* the derived names.
C9_OneEntryPerDerivingRow ==
    Extracted =>
        /\ DOMAIN serverGroups =
              UNION {{CoarseName(file.rows[i]), FineName(file.rows[i])} :
                       i \in DataRows}
        /\ \A g \in DOMAIN serverGroups :
              serverGroups[g] =
                 [k \in DOMAIN RowsDeriving(g) |-> IdOf(RowsDeriving(g)[k])]

\* the derivations of the inventory in order: each data row's coarse name,
\* then its fine name, with the row's identifier
Derivations ==
    [k \in 1..(2 * Cardinality(DataRows)) |->
        LET i == 2 + ((k - 1) \div 2) IN
        [name |-> IF k % 2 = 1 THEN CoarseName(file.rows[i])
                  ELSE FineName(file.rows[i]),
         id |-> IdOf(i)]]

DerivationsOf(g) == SelectSeq(Derivations, LAMBDA d : d.name = g)

\* C9, amended: a group's member list is the identifiers of the derivations
\* of its name, in row order, one entry per derivation (a row whose coarse
\* and fine names are the same name gives two), duplicates kept; the header
\* gives none and the groups are exactly the derived names.
C9_OneEntryPerDerivation ==
    Extracted =>
        /\ DOMAIN serverGroups = {Derivations[k].name : k \in DOMAIN Derivations}
        /\ \A g \in DOMAIN serverGroups :
              serverGroups[g] =
                 [k \in DOMAIN DerivationsOf(g) |-> DerivationsOf(g)[k].id]

\* an extraction in which a group holds the identifiers of two rows, a
\* header with grouping columns having been skipped
C9_Witness ==
    /\ Extracted
    /\ Len(file.rows) = 3
    /\ Len(file.rows[1]) >= 3
    /\ \E g \in DOMAIN serverGroups :
         serverGroups[g] = <<"10.0.0.2", "10.0.0.1">>

(***************************************************************************)
(* Properties of failing runs.                                             *)
(***************************************************************************)
\* the units a client operation returned an error to, or that timed out
FailedUnits == {n \in Launched : units[n].pc = "fatal"}

\* the requests sent for set name
SentFor(name) == {r \in BagToSet(issued) : r.name = name}
CountFor(name) == SumCopies(SentFor(name))

\* C11 as stated: once a unit has hit an operational error no unit, the
\* siblings in flight included, sends another request.
C11_NoRequestAfterAnyError ==
    [][FailedUnits # {} => issued' = issued]_vars

\* C11, amended: once a unit has hit an operational error, that unit sends
\* no further request, main never reaches its normal end, and the process
\* exits with the status of log.Fatalf; siblings may still send requests
\* until it does.
C11_ErrorEndsTheRun ==
    /\ [](FailedUnits # {} => pcMain # "done")
    /\ [][\A n \in FailedUnits : CountFor(n)' = CountFor(n)]_vars
    /\ [][FailedUnits # {} => FailedUnits \subseteq FailedUnits']_vars
    /\ (FailedUnits # {}) ~> (exitCode = ExitAfterFatalf /\ exitCause = "unit")

\* the process ended by log.Fatalf with a unit whose create failed and a
\* sibling that has polled its task twice
C11_Witness ==
    /\ exitCause = "unit"
    /\ \E n \in FailedUnits :
         /\ units[n].failure = "create"
         /\ \E m \in Launched \ {n} : units[m].retry = RetryBudget - 2

(***************************************************************************)
(* Properties of the request sequences.                                    *)
(***************************************************************************)
\* the units of one kind
UnitsOfKind(kind) == {n \in Launched : units[n].kind = kind}

\* C12: the names are divided by membership in the two mappings, each name
\* has at most one unit, of the kind of its class, and every request bears
\* the name of a launched unit.  An existing name gets at most one delete,
\* with purge_only=true, lookups only after it, at most one bulk-load and
\* no create; a new name at most one create, at most one bulk-load after
\* it, no delete and no lookup; an orphan at most one delete, with
\* purge_only=false, lookups only after it, no create and no bulk-load.
\* At the normal end each of these counts is exactly one.
C12_OneSequencePerName ==
    /\ UnitsOfKind("sync") \subseteq DOMAIN serverGroups
    /\ UnitsOfKind("delete") \subseteq Orphans
    /\ \A r \in BagToSet(issued) : r.name \in Launched
    /\ \A n \in Existing :
         /\ Sent("delete", n) \subseteq {Request("delete", n, TRUE, 0, <<>>)}
         /\ SentCount("delete", n) <= 1
         /\ Sent("status", n) # {} => Sent("delete", n) # {}
         /\ Sent("load", n) # {} => Sent("delete", n) # {}
         /\ SentCount("load", n) <= 1
         /\ Sent("create", n) = {}
         /\ pcMain = "done" =>
               SentCount("delete", n) = 1 /\ SentCount("load", n) = 1
    /\ \A n \in New :
         /\ SentCount("create", n) <= 1
         /\ Sent("load", n) # {} => Sent("create", n) # {}
         /\ SentCount("load", n) <= 1
         /\ Sent("delete", n) = {} /\ Sent("status", n) = {}
         /\ pcMain = "done" =>
               SentCount("create", n) = 1 /\ SentCount("load", n) = 1
    /\ \A n \in Orphans :
         /\ Sent("delete", n) \subseteq {Request("delete", n, FALSE, 0, <<>>)}
         /\ SentCount("delete", n) <= 1
         /\ Sent("status", n) # {} => Sent("delete", n) # {}
         /\ Sent("create", n) = {} /\ Sent("load", n) = {}
         /\ pcMain = "done" => SentCount("delete", n) = 1

\* a normal end of a run with a name of each class, the existing one's purge
\* having been polled
C12_Witness ==
    /\ pcMain = "done"
    /\ New # {} /\ Orphans # {}
    /\ \E n \in Existing :
         SentCount("status", n) > 0 /\ SentCount("load", n) = 1

\* the lookup a unit sends next: for the task of its most recent response
NextLookup(name) == Request("status", name, FALSE, units[name].task.ID, <<>>)

\* C13: once the client has returned a task with status COMPLETED for a
\* name, no further status lookup is sent for it and the unit is past its
\* polling loop; when it was the delete's own answer, no lookup was sent at
\* all.  Every lookup sent is for the task of the unit's most recent
\* response, a task the store started for that name.
C13_PollerStopsAtCompleted ==
    /\ [](\A n \in Launched :
            /\ SawCompleted(n) => units[n].pc \notin {"start", "poll"}
            /\ Outcome("delete", n, FALSE, "COMPLETED") \in replies =>
                  Sent("status", n) = {}
            /\ \A r \in Sent("status", n) :
                  r.taskID \in DOMAIN tasks /\ tasks[r.taskID].name = n)
    /\ [][\A n \in Launched :
            /\ SawCompleted(n) =>
                  SentCount("status", n)' = SentCount("status", n)
            /\ SentCount("status", n)' # SentCount("status", n) =>
                  CopiesIn(NextLookup(n), issued') =
                     CopiesIn(NextLookup(n), issued) + 1]_vars

\* one unit went on with no lookup after a delete answered COMPLETED, another
\* stopped polling at the second lookup, the first to report COMPLETED
C13_Witness ==
    /\ \E n \in Launched :
         /\ Outcome("delete", n, FALSE, "COMPLETED") \in replies
         /\ units[n].pc = "done"
    /\ \E n \in Launched :
         /\ Outcome("status", n, FALSE, "COMPLETED") \in replies
         /\ SentCount("status", n) = 2
         /\ units[n].pc = "done"

(***************************************************************************)
(* Properties of the remote-state mapping.                                 *)
(***************************************************************************)
\* C14: once the listing has returned, the keys of unixRefSets are exactly
\* the managed names of the store that was listed, and each key maps to the
\* record of the listed set of that name.
C14_KeysMapToOwnRecord ==
    /\ (pcMain = "launch" /\ issued = EmptyBag) =>
          DOMAIN unixRefSets = ManagedRemote
    /\ \A n \in DOMAIN unixRefSets :
          /\ unixRefSets[n].Name = n
          /\ issued = EmptyBag =>
                unixRefSets[n].NumberOfElements = Cardinality(remoteSets[n])

(***************************************************************************)
(* Properties of the client operations.                                    *)
(***************************************************************************)
\* the outcomes with an error that the client returned for set name
ErrorsFor(name) == {o \in replies : o.name = name /\ o.err}

\* the failure a unit records for an error of each operation
FailureOf(op) ==
    CASE op = "create" -> "create"
      [] op = "load" -> "load"
      [] op = "delete" -> "delete"
      [] op = "status" -> "poll"

\* C15: each operation returns an error exactly when the round trip
\* failed, the code is not the operation's own (201 create, 200 bulk-load,
\* 202 delete, 200 task status) or the body does not decode; an error
\* comes with no result; a result is returned only for a request the store
\* has served; the unit that got an error is at its log.Fatalf and sends
\* nothing more for its name.
C15_ErrorUnlessExpectedCode ==
    /\ [](\A reply \in Replies :
            LET bad(code) ==
                  reply.sendErr \/ reply.code # code \/ ~reply.decodes
            IN /\ CreateReferenceSetErr(reply) <=> bad(201)
               /\ BulkLoadReferenceSetErr(reply) <=> bad(200)
               /\ DeleteReferenceSetErr(reply) <=> bad(202)
               /\ DeleteReferenceSetTaskStatusErr(reply) <=> bad(200))
    /\ [](\A n \in Launched : \A o \in ErrorsFor(n) :
            /\ o.status = ""
            /\ units[n].pc = "fatal"
            /\ units[n].failure = FailureOf(o.op))
    /\ [][\A o \in replies' \ replies :
            ~o.err =>
              CASE o.op = "create" ->
                     /\ o.name \notin DOMAIN remoteSets
                     /\ o.name \in DOMAIN remoteSets'
                [] o.op = "load" ->
                     /\ o.name \in DOMAIN remoteSets'
                     /\ remoteSets'[o.name] = Range(serverGroups[o.name])
                [] o.op = "delete" ->
                     /\ Len(tasks') = Len(tasks) + 1
                     /\ tasks'[Len(tasks')].name = o.name
                     /\ tasks'[Len(tasks')].status = o.status
                [] o.op = "status" ->
                     o.status = tasks[units[o.name].task.ID].status]_vars
    /\ [][\A n \in Launched :
            ErrorsFor(n) # {} => CountFor(n)' = CountFor(n)]_vars

\* the client returned an error for a create and for a status lookup, and a
\* result for a bulk-load
C15_Witness ==
    /\ \E n \in Launched : Outcome("create", n, TRUE, "") \in replies
    /\ \E n \in Launched : Outcome("status", n, TRUE, "") \in replies
    /\ \E n \in Launched : Outcome("load", n, FALSE, "") \in replies

(***************************************************************************)
(* Properties of the sets outside the managed prefix.                      *)
(***************************************************************************)
\* the sets of the store whose name lacks the managed prefix
UnmanagedRemote == DOMAIN remoteSets \ ManagedRemote

\* C16: every request the run has sent names a set with the managed
\* prefix, and no step of any run, before or after an exit, adds, removes
\* or changes a set without it.
C16_UnmanagedSetsUntouched ==
    /\ [](\A r \in BagToSet(issued) : HasPrefix(r.name, unixRefSetPrefix))
    /\ [][/\ UnmanagedRemote' = UnmanagedRemote
          /\ \A n \in UnmanagedRemote : remoteSets'[n] = remoteSets[n]]_vars

\* a finished run that deleted an orphan and loaded a group next to a set
\* without the prefix
C16_Witness ==
    /\ UnmanagedRemote # {}
    /\ pcMain = "done"
    /\ \E n \in Orphans : n \notin DOMAIN remoteSets
    /\ \E g \in DOMAIN serverGroups : Sent("load", g) # {}

(***************************************************************************)
(* Properties of the store at exit.                                        *)
(***************************************************************************)
\* the names whose purge (delete with purge_only=true) the store has carried
\* out
Purged ==
    {n \in Launched :
       /\ Request("delete", n, TRUE, 0, <<>>) \in Sent("delete", n)
       /\ \E id \in DOMAIN tasks :
            /\ tasks[id].name = n
            /\ tasks[id].purgeOnly
            /\ tasks[id].status = "COMPLETED"}

\* C17: once the process has exited, normally or not, every set that a
\* purge of the run has emptied has had its bulk-load returned with success
\* and holds the desired members.
C17_NoSetLeftEmptiedAtExit ==
    ~Running =>
        \A n \in Purged :
            /\ Outcome("load", n, FALSE, "") \in replies
            /\ n \in DOMAIN remoteSets
            /\ remoteSets[n] = Range(serverGroups[n])

(***************************************************************************)
(* Properties of the abnormal ends.                                        *)
(***************************************************************************)
\* C18: for an inventory that opens and parses as tabular data, rows with
\* fewer than three columns included, extractServerGroups returns a group
\* mapping or an error: main goes on to the listing or ends through the
\* log.Fatalf of line 63, never through a run-time panic.
C18_ExtractionReturnsOrErrs ==
    (~file.unreadable /\ ~ReadAll(file).err /\ pcMain \notin {"config", "extract"})
    => \/ pcMain = "list"
       \/ exitCause \in {"config", "extract"}

\* C19: a base URL that is present but malformed makes the listing return
\* an error value, and the run ends as a failed pre-flight listing, through
\* the log.Fatalf of line 71; it does not end in a run-time panic.
C19_BadURLIsAListingError ==
    (/\ url = MalformedURL /\ token # ""
     /\ extractServerGroups(file).kind = "ok"
     /\ pcMain = "exited")
    => /\ exitCause = "list"
       /\ exitCode = ExitAfterFatalf

====
